---- MODULE Spec2Model ----
(***************************************************************************)
(* State-machine model of qwen_code_proxy's authenticated dispatcher:      *)
(* QwenClient (src/src/qwen_code_proxy/qwen_client.py) as it is driven by  *)
(* chat_completions (src/src/qwen_code_proxy/server.py), which builds one  *)
(* QwenClient per inbound request and calls make_request on it.            *)
(*                                                                         *)
(* Every client owns its cached credential (self._oauth_creds); the        *)
(* credential file ~/.qwen/oauth_creds.json is shared by all of them.      *)
(* A step of a client runs from the return of one blocking call (an HTTP   *)
(* request, time.sleep) to the start of the next one, and stops where the  *)
(* client is about to open the credential file or has it open: between     *)
(* exists() and open() in _load_oauth_creds, before open(..., "w") in      *)
(* _save_oauth_creds, and between that open, which truncates the file, and *)
(* the close that writes it.  Other clients run in these windows.          *)
(*                                                                         *)
(* Time is kept in quarter seconds, which represents time.time() and the   *)
(* poll intervals 2, 3, 4.5, 6.75, 10 exactly.  The clock advances while a *)
(* client sleeps in _poll_for_token; HTTP requests are answered at the     *)
(* time they are sent.                                                     *)
(*                                                                         *)
(* Spec is one dispatch against every stored credential and every answer   *)
(* of the endpoints.  SpecShared is several dispatches that overlap on the *)
(* shared credential file: QwenClient holds no lock, so the steps of       *)
(* clients used from several threads, worker processes or programs         *)
(* interleave freely.  SpecExpiry evaluates _is_token_expired alone.       *)
(* SpecSave is _save_oauth_creds called on its own, with loads by other    *)
(* clients around and inside it.  SpecPoll is _poll_for_token              *)
(* over a device authorization long enough for the interval to reach its   *)
(* cap.  SpecStream is generate_stream of openai_adapter.py driving        *)
(* make_request.  SpecCache is clients that are built first and used       *)
(* later, as the module-level client of openai_adapter.py is.              *)
(***************************************************************************)
EXTENDS Integers, Sequences, FiniteSets, TLC

VARIABLES
    now,        \* time.time(), in ticks of 1/TicksPerSec second
    file,       \* content of OAUTH_CREDS_FILE, or NoFile
    issued,     \* number of token grants the token endpoint has made
    lifetime,   \* expires_in of the tokens the token endpoint grants, in seconds
    client      \* client[r]: the QwenClient built for request r and its make_request frame

vars == <<now, file, issued, lifetime, client>>

----------------------------------------------------------------------------
(* Bounds of the model.                                                    *)

\* number of inbound requests (each with its own QwenClient)
NumRequests == 2

Requests == 1..NumRequests

\* longest device authorization the provider grants, in seconds
MaxDeviceLifetime == 5

----------------------------------------------------------------------------
(* Program constants.                                                      *)

\* resolution of the model clock: 4 ticks per second
TicksPerSec == 4

\* _is_token_expired: time.time() - 30
ExpirySkew == 30

\* _poll_for_token: poll_interval = 2
InitialPollInterval == 2

\* _poll_for_token: min(poll_interval * 1.5, 10)
MaxPollInterval == 10

\* make_request: response.status_code in [400, 401, 403]
AuthFailureStatuses == {400, 401, 403}

\* Python None
None == [none |-> TRUE]

\* OAUTH_CREDS_FILE.exists() is false
NoFile == [exists |-> FALSE]

\* the empty string (falsy in Python); other strings are non-empty
EmptyStr == <<>>

\* the file right after open(OAUTH_CREDS_FILE, "w"): it exists and is empty
EmptyFile == [size |-> 0]

\* fields of the OAuthCreds dataclass
CredFields == {"access_token", "refresh_token", "token_type", "resource_url", "expiry_date"}

\* API_BASE_URL.replace("/v1", ""): an https URL
DefaultResourceUrl == <<"https://", "dashscope.aliyuncs.com/compatible-mode">>

----------------------------------------------------------------------------
(* Pure functions of qwen_client.py.                                       *)

\* int(time.time()): whole seconds of a tick count
IntTime(t) == t \div TicksPerSec

\* dict.get(key, default)
Get(d, k, default) == IF k \in DOMAIN d THEN d[k] ELSE default

\* OAuthCreds(...)
OAuthCreds(at, rt, tt, url, exp) ==
    [access_token |-> at, refresh_token |-> rt, token_type |-> tt,
     resource_url |-> url, expiry_date |-> exp]

\* open(OAUTH_CREDS_FILE, "r") raises FileNotFoundError: the file that
\* exists() has seen is gone
OpenRaises(f) == f = NoFile

\* _load_oauth_creds raises: json.load / OAuthCreds(**creds_json) fail on a
\* file that is not a JSON object with exactly the dataclass's fields
LoadRaises(f) == f # NoFile /\ DOMAIN f # CredFields

\* _load_oauth_creds, when it does not raise
LoadOAuthCreds(f) == IF f = NoFile THEN None ELSE f

\* json.dump(creds.__dict__, f)
DumpOAuthCreds(c) == c

\* number of decimal digits of n
RECURSIVE Digits(_)
Digits(n) == IF n < 10 THEN 1 ELSE 1 + Digits(n \div 10)

\* number of characters of a string kept as a tuple of strings
RECURSIVE StrSize(_)
StrSize(s) == IF s = <<>> THEN 0 ELSE Len(Head(s)) + StrSize(Tail(s))

\* number of characters of a token: its label and its number
TokenSize(tok) == IF tok = EmptyStr THEN 0 ELSE Len(tok[1]) + Digits(tok[2])

\* length of the text json.dump writes for c, up to the punctuation and the
\* keys, which every credential shares
TextSize(c) ==
    TokenSize(c.access_token) + TokenSize(c.refresh_token) + Len(c.token_type)
        + StrSize(c.resource_url) + Digits(c.expiry_date)

\* a file whose text is one JSON object followed by the tail of a longer one
GarbledFile(n) == [garbled |-> TRUE, size |-> n]

\* length of the content of a file that exists
FileSize(f) ==
    IF f = EmptyFile THEN 0
    ELSE IF "garbled" \in DOMAIN f THEN f.size
    ELSE TextSize(f)

\* the file after the text of creds is written at offset 0 over content f:
\* open(..., "w") truncates once, at the open, and the write replaces the
\* first characters of what another writer has put there since
WriteOver(f, creds) ==
    IF FileSize(f) <= TextSize(creds)
    THEN DumpOAuthCreds(creds)
    ELSE GarbledFile(FileSize(f))

\* a mutant of IsTokenExpired: the skew applied towards the future
IsTokenExpired_Proactive(c, t) ==
    \/ c = None
    \/ c.expiry_date * TicksPerSec < t + ExpirySkew * TicksPerSec

\* _is_token_expired at time t, for the cached credential c
IsTokenExpired(c, t) ==
    \/ c = None
    \/ c.expiry_date * TicksPerSec < t - ExpirySkew * TicksPerSec

\* a mutant of RefreshedCreds: the previous refresh_token and resource_url
\* are kept even when the response supplies new ones
RefreshedCreds_KeepOld(old, data, t) ==
    OAuthCreds(data.access_token, old.refresh_token, data.token_type,
               old.resource_url, IntTime(t) + data.expires_in)

\* the credential _refresh_token builds from a 200 response at time t
RefreshedCreds(old, data, t) ==
    OAuthCreds(data.access_token,
               Get(data, "refresh_token", old.refresh_token),
               data.token_type,
               Get(data, "resource_url", old.resource_url),
               IntTime(t) + data.expires_in)

\* the credential _poll_for_token builds from a 200 response at time t
PolledCreds(data, t) ==
    OAuthCreds(data.access_token,
               data.refresh_token,
               data.token_type,
               Get(data, "resource_url", DefaultResourceUrl),
               IntTime(t) + data.expires_in)

\* make_request: the chat URL built from resource_url
ApiUrl(url) ==
    (IF url # <<>> /\ Head(url) = "https://" THEN url ELSE <<"https://">> \o url)
        \o <<"/v1/chat/completions">>

\* a mutant of NextPollInterval: the interval grows without the cap
NextPollInterval_Uncapped(i) == (3 * i) \div 2

\* min(poll_interval * 1.5, 10), in ticks
NextPollInterval(i) ==
    IF 3 * i >= 2 * MaxPollInterval * TicksPerSec
    THEN MaxPollInterval * TicksPerSec
    ELSE (3 * i) \div 2

----------------------------------------------------------------------------
(* The environment: what the token endpoint, the device-authorization      *)
(* endpoint and the chat endpoint may answer.  status 0 stands for a       *)
(* transport failure: requests.post raises instead of returning.           *)

NoData == [none |-> TRUE]

Response(st, err, d) == [status |-> st, error |-> err, data |-> d]

\* expires_in of the tokens a token endpoint grants, in seconds: one value
\* per provider
TokenLifetimes == {0, 3600}

\* expires_in of a device authorization, in seconds
DeviceLifetimes == {0, MaxDeviceLifetime}

\* the n-th access token / refresh token granted, and a rotated resource URL
AccessToken(n) == <<"access", n>>
RefreshTokenNo(n) == <<"refresh", n>>
RotatedUrl == <<"portal.qwen.ai">>

\* the required keys of a token response
TokenCore(n, exp) ==
    [access_token |-> AccessToken(n), token_type |-> "Bearer", expires_in |-> exp]

\* JSON bodies of a 200 answer to a refresh_token grant: refresh_token and
\* resource_url are each supplied or omitted
RefreshData(n, exp) ==
    { TokenCore(n, exp) @@ rt @@ url :
        rt \in {<<>>, [refresh_token |-> RefreshTokenNo(n)]},
        url \in {<<>>, [resource_url |-> RotatedUrl]} }

\* JSON bodies of a 200 answer to a device_code grant: resource_url optional
PollData(n, exp) ==
    { TokenCore(n, exp) @@ [refresh_token |-> RefreshTokenNo(n)] @@ url :
        url \in {<<>>, [resource_url |-> RotatedUrl]} }

RefreshResponses(n, exp) ==
    {Response(0, "", NoData), Response(400, "invalid_grant", NoData)}
        \cup {Response(200, "", d) : d \in RefreshData(n, exp)}

DeviceResponses ==
    {Response(0, "", NoData), Response(500, "", NoData)}
        \cup {Response(200, "", [expires_in |-> e]) : e \in DeviceLifetimes}

PollResponses(n, exp) ==
    {Response(0, "", NoData)}
        \cup {Response(400, e, NoData) :
                e \in {"authorization_pending", "slow_down", "access_denied"}}
        \cup {Response(200, "", d) : d \in PollData(n, exp)}

ChatResponses == {Response(st, "", NoData) : st \in {0, 200, 400, 401, 403, 500}}

\* credentials a client may find on disk when it is built
StoredCreds ==
    { OAuthCreds(AccessToken(0), rt, "Bearer", url, exp) :
        rt \in {EmptyStr, RefreshTokenNo(0)},
        url \in {<<"https://", "portal.qwen.ai">>},
        exp \in {70, 4000} }

\* a credential file that json.load or OAuthCreds(**creds_json) rejects
CorruptFile == [access_token |-> AccessToken(0)]

InitialFiles == {NoFile, CorruptFile} \cup StoredCreds

\* 100.0 s and 100.25 s
InitialTimes == {400, 401}

----------------------------------------------------------------------------
(* A client: the QwenClient object of one request and the frame of its     *)
(* make_request call.                                                      *)
(*   pc     the call in flight: "refresh", "device", "poll" and "chat"     *)
(*          are requests.post calls, "sleep" is time.sleep; "open" is the  *)
(*          open of _load_oauth_creds (line 66), after exists() has        *)
(*          returned True; "save" is the open of _save_oauth_creds (line   *)
(*          72), called and not yet made; "saving" is its with block       *)
(*          (lines 72-73), the file opened and not yet written;            *)
(*          "new" before the client is built, "off" for a request that     *)
(*          never arrives, "done" / "failed" after make_request returned   *)
(*          or raised                                                      *)
(*   stage  where in make_request the call was made: "ensure" is           *)
(*          _ensure_valid_token (line 200), "first" the first send (219),  *)
(*          "try" the try block (222-225), "except" its handler (227-229); *)
(*          before make_request, "request" in a client that                *)
(*          chat_completions builds for a request and "init" in a client   *)
(*          built on its own                                               *)
(*   handle the save in progress: the credential _save_oauth_creds was     *)
(*          called with and, once the with block has opened the file,      *)
(*          whether that file is still the one at OAUTH_CREDS_FILE (unlink *)
(*          by another client removes the name; the open file lives on     *)
(*          without it)                                                    *)
(*   log    history of the requests sent and the answers received          *)
(*   gen    position of the adapter's generate_stream that drives the      *)
(*          client, "none" when it is driven by chat_completions           *)
(*   frames the frames generate_stream has yielded                         *)

NewClient(pc0) ==
    [pc |-> pc0, stage |-> "init", oauth_creds |-> None, stream |-> FALSE,
     api_url |-> <<>>, bearer |-> <<>>,
     start_time |-> 0, poll_interval |-> 0, expires_in |-> 0, wake |-> 0,
     result |-> None, error |-> "", log |-> <<>>, handle |-> None,
     gen |-> "none", frames |-> <<>>]

\* the response field of a history entry that records no answer
NoResponse == Response(0, "", NoData)

\* one entry of the history: what was sent, or which answer was received,
\* with the client's stage, cached credential, headers and URL at that time
Event(s, op, resp, t) ==
    [op |-> op, status |-> resp.status, error |-> resp.error, data |-> resp.data,
     stage |-> s.stage, creds |-> s.oauth_creds,
     bearer |-> s.bearer, api_url |-> s.api_url, time |-> t]

Logged(s, op, resp, t) == [s EXCEPT !.log = Append(@, Event(s, op, resp, t))]

\* make_request (or QwenClient()) raises err to chat_completions
Raise(s, err) == [s EXCEPT !.pc = "failed", !.error = err]

\* requests.post(TOKEN_URL, ...) of _refresh_token, lines 146-155
PostRefresh(s, stage, t) ==
    Logged([s EXCEPT !.pc = "refresh", !.stage = stage], "refresh", NoResponse, t)

\* _perform_device_auth up to requests.post(DEVICE_CODE_URL, ...), lines 82-95
PerformDeviceAuth(s, stage, t) ==
    Logged([s EXCEPT !.pc = "device", !.stage = stage], "device", NoResponse, t)

\* _authenticate, lines 186-187
Authenticate(s, stage, t) == PerformDeviceAuth(s, stage, t)

\* the stage of the handler that catches an exception of _refresh_token
HandlerOf(stage) == IF stage = "try" THEN "except" ELSE stage

\* a mutant of RefreshRaised: the failure of the refresh reaches the caller
RefreshRaised_Surfaced(s, t) == Raise(s, "Failed to refresh token.")

\* _refresh_token raises (lines 144, 155, 159): both callers catch it and
\* call _authenticate (lines 181-182, 226-227)
RefreshRaised(s, t) == Authenticate(s, HandlerOf(s.stage), t)

\* _refresh_token, lines 142-155
RefreshToken(s, stage, t) ==
    IF s.oauth_creds = None
    THEN RefreshRaised([s EXCEPT !.stage = stage], t)
    ELSE PostRefresh(s, stage, t)

\* make_request, lines 202-219: build the URL and the headers, first send
SendFirst(s, t) ==
    LET s1 == [s EXCEPT !.pc = "chat", !.stage = "first",
                        !.api_url = ApiUrl(s.oauth_creds.resource_url),
                        !.bearer = s.oauth_creds.access_token]
    IN  Logged(s1, "chat", NoResponse, t)

\* make_request, lines 224-225 and 228-229: new Authorization header, resend
Resend(s, t) ==
    LET s1 == [s EXCEPT !.pc = "chat", !.bearer = s.oauth_creds.access_token]
    IN  Logged(s1, "chat", NoResponse, t)

\* what follows once _refresh_token or _authenticate has returned
CredentialReady(s, t) ==
    IF s.stage = "ensure" THEN SendFirst(s, t) ELSE Resend(s, t)

\* a mutant of EnsureValidToken: only an absent credential is renewed
EnsureValidToken_AbsentOnly(s, t) ==
    IF s.oauth_creds = None
    THEN Authenticate(s, "ensure", t)
    ELSE SendFirst([s EXCEPT !.stage = "ensure"], t)

\* _ensure_valid_token, lines 176-184, then the rest of make_request
EnsureValidToken(s, t) ==
    IF IsTokenExpired(s.oauth_creds, t)
    THEN IF s.oauth_creds # None /\ s.oauth_creds.refresh_token # EmptyStr
         THEN RefreshToken(s, "ensure", t)
         ELSE Authenticate(s, "ensure", t)
    ELSE SendFirst([s EXCEPT !.stage = "ensure"], t)

\* a mutant of Finish: raise_for_status is left out
Finish_NoRaise(s, resp, k) ==
    [s EXCEPT !.pc = "done",
              !.result = [kind |-> IF s.stream THEN "stream" ELSE "json",
                          response |-> k]]

\* a mutant of Finish: the first response is returned, not the last one
Finish_FirstResponse(s, resp, k) ==
    IF resp.status >= 400
    THEN Raise(s, "HTTPError")
    ELSE [s EXCEPT !.pc = "done",
                   !.result = [kind |-> IF s.stream THEN "stream" ELSE "json",
                               response |-> 1]]

\* make_request, lines 231-239: raise_for_status, then the stream or the body
\* of the response; k numbers the responses of this dispatch
Finish(s, resp, k) ==
    IF resp.status >= 400
    THEN Raise(s, "HTTPError")
    ELSE [s EXCEPT !.pc = "done",
                   !.result = [kind |-> IF s.stream THEN "stream" ELSE "json",
                               response |-> k]]

\* the head of the while loop of _poll_for_token, lines 113-114 and 140
PollLoop(s, t) ==
    IF t - s.start_time < s.expires_in * TicksPerSec
    THEN [s EXCEPT !.pc = "sleep", !.wake = t + s.poll_interval]
    ELSE Raise(s, "OAuth device flow timed out.")

\* number of entries of a history with a given op
Count(log, op) == Cardinality({i \in DOMAIN log : log[i].op = op})

----------------------------------------------------------------------------
(* Handlers of the answers.  Each yields the client's next state c and the *)
(* next content f of the credential file.                                  *)

\* _save_oauth_creds is called with creds, lines 70-71: the credential file
\* is not touched yet
BeginSave(s, creds) ==
    [s EXCEPT !.pc = "save", !.handle = [creds |-> creds, linked |-> TRUE]]

\* _save_oauth_creds, line 72: open(..., "w") creates the file or truncates it
TruncateForSave(s) == [c |-> [s EXCEPT !.pc = "saving"], f |-> EmptyFile]

\* a mutant of SaveOAuthCreds: the cache is updated, the file is not written
SaveOAuthCreds_NoWrite(s, f, creds) ==
    [c |-> [s EXCEPT !.oauth_creds = creds, !.handle = None], f |-> f]

\* _save_oauth_creds, lines 73-74: json.dump and the close of the with block
\* put the text into the opened file, then the cache is set; f is the file
\* before, creds what is saved
SaveOAuthCreds(s, f, creds) ==
    [c |-> [s EXCEPT !.oauth_creds = creds, !.handle = None],
     f |-> IF s.handle.linked THEN WriteOver(f, creds) ELSE f]

\* OAUTH_CREDS_FILE.unlink by another client, as it reaches a client whose
\* with block has the file open
Detach(c) ==
    IF c.pc = "saving" THEN [c EXCEPT !.handle = [@ EXCEPT !.linked = FALSE]] ELSE c

\* the step from file f to file f2 removes the file
Unlinks(f, f2) == f # NoFile /\ f2 = NoFile

\* a mutant of DropCreds: the cache is cleared, the file is left in place
DropCreds_KeepFile(s, f) == [c |-> [s EXCEPT !.oauth_creds = None], f |-> f]

\* _refresh_token on a non-200 answer, lines 157-158
DropCreds(s, f) == [c |-> [s EXCEPT !.oauth_creds = None], f |-> NoFile]

\* _refresh_token from the answer on, lines 155-174, up to its caller (on a
\* failure) or to the call of _save_oauth_creds (on a 200)
OnRefreshResponse(s, f, resp, t) ==
    IF resp.status = 0
    THEN [c |-> RefreshRaised(s, t), f |-> f]
    ELSE IF resp.status # 200
    THEN LET d == DropCreds(s, f)
         IN  [c |-> RefreshRaised(d.c, t), f |-> d.f]
    ELSE [c |-> BeginSave(s, RefreshedCreds(s.oauth_creds, resp.data, t)), f |-> f]

\* _perform_device_auth from the answer on (lines 95-97), then _authenticate
\* (lines 188-197) and the start of _poll_for_token (lines 111-113)
OnDeviceResponse(s, resp, t) ==
    IF resp.status = 0 THEN Raise(s, "ConnectionError")
    ELSE IF resp.status >= 400 THEN Raise(s, "HTTPError")
    ELSE PollLoop([s EXCEPT !.start_time = t,
                            !.poll_interval = InitialPollInterval * TicksPerSec,
                            !.expires_in = resp.data.expires_in], t)

\* a mutant of OnPollResponse: an error code that is neither
\* authorization_pending nor slow_down is polled again
OnPollResponse_Swallow(s, f, resp, t) ==
    IF resp.status = 0
    THEN [c |-> Raise(s, "ConnectionError"), f |-> f]
    ELSE IF resp.status = 200
    THEN [c |-> BeginSave(s, PolledCreds(resp.data, t)), f |-> f]
    ELSE IF resp.error = "slow_down"
    THEN [c |-> PollLoop([s EXCEPT !.poll_interval = NextPollInterval(@)], t), f |-> f]
    ELSE [c |-> PollLoop(s, t), f |-> f]

\* _poll_for_token from the answer on, lines 115-138, up to the next turn of
\* the loop, the raise, or the call of _save_oauth_creds (on a 200)
OnPollResponse(s, f, resp, t) ==
    IF resp.status = 0
    THEN [c |-> Raise(s, "ConnectionError"), f |-> f]
    ELSE IF resp.status = 200
    THEN [c |-> BeginSave(s, PolledCreds(resp.data, t)), f |-> f]
    ELSE IF resp.error = "authorization_pending"
    THEN [c |-> PollLoop(s, t), f |-> f]
    ELSE IF resp.error = "slow_down"
    THEN [c |-> PollLoop([s EXCEPT !.poll_interval = NextPollInterval(@)], t), f |-> f]
    ELSE [c |-> Raise(s, "OAuth error"), f |-> f]

\* a mutant of OnChatResponse: every auth failure is answered by a refresh
OnChatResponse_Loop(s, resp, t) ==
    LET k == Count(s.log, "chat")
    IN  IF resp.status = 0 THEN Raise(s, "ConnectionError")
        ELSE IF resp.status \in AuthFailureStatuses THEN RefreshToken(s, "try", t)
        ELSE Finish(s, resp, k)

\* make_request from the answer of a chat send on, lines 219-239
OnChatResponse(s, resp, t) ==
    LET k == Count(s.log, "chat")
    IN  IF s.stage = "first"
        THEN IF resp.status = 0 THEN Raise(s, "ConnectionError")
             ELSE IF resp.status \in AuthFailureStatuses THEN RefreshToken(s, "try", t)
             ELSE Finish(s, resp, k)
        ELSE IF s.stage = "try"
        THEN IF resp.status = 0 THEN Authenticate(s, "except", t)
             ELSE Finish(s, resp, k)
        ELSE IF resp.status = 0 THEN Raise(s, "ConnectionError")
             ELSE Finish(s, resp, k)

----------------------------------------------------------------------------
(* Actions.                                                                *)

\* chat_completions, server.py lines 142-145: QwenClient(...) starts to load
\* the credential file, lines 59-65.  Without a file the credential is
\* absent and make_request runs up to its first blocking call; with a file,
\* the client goes on to open it
Start(r, strm) ==
    /\ client[r].pc = "new"
    /\ LET s == [client[r] EXCEPT !.stream = strm, !.stage = "request"]
       IN  client' = [client EXCEPT ![r] =
               IF file = NoFile
               THEN EnsureValidToken(
                        Logged([s EXCEPT !.oauth_creds = LoadOAuthCreds(file)],
                               "load", NoResponse, now), now)
               ELSE [s EXCEPT !.pc = "open"]]
    /\ UNCHANGED <<now, file, issued, lifetime>>

\* QwenClient.__init__ on its own, lines 59-65: the load up to the open
Construct(r) ==
    /\ client[r].pc = "new"
    /\ client' = [client EXCEPT ![r] =
           IF file = NoFile
           THEN Logged([@ EXCEPT !.pc = "built", !.oauth_creds = LoadOAuthCreds(file)],
                       "load", NoResponse, now)
           ELSE [@ EXCEPT !.pc = "open"]]
    /\ UNCHANGED <<now, file, issued, lifetime>>

\* what follows the load: make_request in a client built for a request,
\* nothing in a client built on its own
Loaded(s, t) ==
    IF s.stage = "request" THEN EnsureValidToken(s, t) ELSE [s EXCEPT !.pc = "built"]

\* a mutant of LoadOpen: a credential file that cannot be opened or parsed
\* is read as absent
LoadOpen_Absent(r) ==
    /\ client[r].pc = "open"
    /\ LET creds == IF OpenRaises(file) \/ LoadRaises(file)
                    THEN None ELSE LoadOAuthCreds(file)
       IN  client' = [client EXCEPT ![r] =
               Loaded(Logged([@ EXCEPT !.oauth_creds = creds], "load", NoResponse, now), now)]
    /\ UNCHANGED <<now, file, issued, lifetime>>

\* _load_oauth_creds, lines 66-68: open, json.load, OAuthCreds(**creds_json),
\* on the file as it is by now
LoadOpen(r) ==
    /\ client[r].pc = "open"
    /\ client' = [client EXCEPT ![r] =
           IF OpenRaises(file) \/ LoadRaises(file)
           THEN Raise(Logged(@, "load", NoResponse, now), "LoadError")
           ELSE Loaded(Logged([@ EXCEPT !.oauth_creds = LoadOAuthCreds(file)],
                              "load", NoResponse, now), now)]
    /\ UNCHANGED <<now, file, issued, lifetime>>

\* _save_oauth_creds, line 72: the file is opened for writing
SaveOpen(r) ==
    /\ client[r].pc = "save"
    /\ LET tr == TruncateForSave(client[r])
       IN  /\ client' = [client EXCEPT ![r] = tr.c]
           /\ file' = tr.f
    /\ UNCHANGED <<now, issued, lifetime>>

\* _save_oauth_creds, lines 73-74, then what follows the save: the send of
\* make_request after _refresh_token or _authenticate has returned, nothing
\* when the save is made on its own
SaveClose(r) ==
    /\ client[r].pc = "saving"
    /\ LET sv == SaveOAuthCreds(client[r], file, client[r].handle.creds)
       IN  /\ client' = [client EXCEPT ![r] =
                  IF sv.c.stage = "init"
                  THEN [sv.c EXCEPT !.pc = "saved"]
                  ELSE CredentialReady(sv.c, now)]
           /\ file' = sv.f
    /\ UNCHANGED <<now, issued, lifetime>>

\* the token endpoint answers a refresh_token grant; the unlink of line 158
\* takes the name from the file other clients are writing
RefreshResp(r, resp) ==
    /\ client[r].pc = "refresh"
    /\ LET s == Logged(client[r], "refresh_resp", resp, now)
           out == OnRefreshResponse(s, file, resp, now)
       IN  /\ client' = [q \in Requests |->
                  IF q = r THEN out.c
                  ELSE IF Unlinks(file, out.f) THEN Detach(client[q])
                  ELSE client[q]]
           /\ file' = out.f
    /\ issued' = IF resp.status = 200 THEN issued + 1 ELSE issued
    /\ UNCHANGED <<now, lifetime>>

\* the device-authorization endpoint answers
DeviceResp(r, resp) ==
    /\ client[r].pc = "device"
    /\ LET s == Logged(client[r], "device_resp", resp, now)
       IN  client' = [client EXCEPT ![r] = OnDeviceResponse(s, resp, now)]
    /\ UNCHANGED <<now, file, issued, lifetime>>

\* time.sleep(poll_interval) returns and the token request is posted,
\* lines 114-115
PollWake(r) ==
    /\ client[r].pc = "sleep"
    /\ now' = IF now < client[r].wake THEN client[r].wake ELSE now
    /\ client' = [client EXCEPT ![r] = Logged([@ EXCEPT !.pc = "poll"], "poll", NoResponse, now')]
    /\ UNCHANGED <<file, issued, lifetime>>

\* the token endpoint answers a device_code grant
PollResp(r, resp) ==
    /\ client[r].pc = "poll"
    /\ LET s == Logged(client[r], "poll_resp", resp, now)
           out == OnPollResponse(s, file, resp, now)
       IN  /\ client' = [client EXCEPT ![r] = out.c]
           /\ file' = out.f
    /\ issued' = IF resp.status = 200 THEN issued + 1 ELSE issued
    /\ UNCHANGED <<now, lifetime>>

\* the chat endpoint answers
ChatResp(r, resp) ==
    /\ client[r].pc = "chat"
    /\ LET s == Logged(client[r], "chat_resp", resp, now)
       IN  client' = [client EXCEPT ![r] = OnChatResponse(s, resp, now)]
    /\ UNCHANGED <<now, file, issued, lifetime>>

----------------------------------------------------------------------------
(* Specifications.                                                         *)

\* one dispatch, against every stored credential and every answer
Init ==
    /\ now \in InitialTimes
    /\ file \in InitialFiles
    /\ issued = 0
    /\ lifetime \in TokenLifetimes
    /\ client = [r \in Requests |-> NewClient(IF r = 1 THEN "new" ELSE "off")]

Next ==
    \E r \in Requests :
        \/ \E strm \in BOOLEAN : Start(r, strm)
        \/ LoadOpen(r)
        \/ SaveOpen(r)
        \/ SaveClose(r)
        \/ \E resp \in RefreshResponses(issued + 1, lifetime) : RefreshResp(r, resp)
        \/ \E resp \in DeviceResponses : DeviceResp(r, resp)
        \/ PollWake(r)
        \/ \E resp \in PollResponses(issued + 1, lifetime) : PollResp(r, resp)
        \/ \E resp \in ChatResponses : ChatResp(r, resp)

Spec == Init /\ [][Next]_vars

\* requests racing on the shared credential file, against an endpoint set
\* that answers each call in one successful and one failing way
SharedRefreshResponses(n, exp) ==
    { Response(400, "invalid_grant", NoData),
      Response(200, "", TokenCore(n, exp) @@ [refresh_token |-> RefreshTokenNo(n)]) }

SharedDeviceResponses ==
    { Response(500, "", NoData), Response(200, "", [expires_in |-> MaxDeviceLifetime]) }

SharedPollResponses(n, exp) ==
    { Response(400, "access_denied", NoData),
      Response(200, "", TokenCore(n, 3600) @@ [refresh_token |-> RefreshTokenNo(n)]) }

SharedChatResponses == {Response(st, "", NoData) : st \in {200, 401}}

InitShared ==
    /\ now \in InitialTimes
    /\ file \in InitialFiles
    /\ issued = 0
    /\ lifetime = 3600
    /\ client = [r \in Requests |-> NewClient("new")]

NextShared ==
    \E r \in Requests :
        \/ Start(r, FALSE)
        \/ LoadOpen(r)
        \/ SaveOpen(r)
        \/ SaveClose(r)
        \/ \E resp \in SharedRefreshResponses(issued + 1, lifetime) : RefreshResp(r, resp)
        \/ \E resp \in SharedDeviceResponses : DeviceResp(r, resp)
        \/ PollWake(r)
        \/ \E resp \in SharedPollResponses(issued + 1, lifetime) : PollResp(r, resp)
        \/ \E resp \in SharedChatResponses : ChatResp(r, resp)

SpecShared == InitShared /\ [][NextShared]_vars

----------------------------------------------------------------------------
(* _is_token_expired on its own: a client is built on a stored credential  *)
(* of any expiry date, at any quarter second of one second, and the check  *)
(* is evaluated.                                                           *)

\* latest expiry_date of the stored credentials tried, in seconds
MaxExpiryDate == 140

\* a call of _is_token_expired, lines 76-79; its value is kept in result
CheckExpired(r) ==
    /\ client[r].pc = "built"
    /\ client' = [client EXCEPT ![r] =
           [@ EXCEPT !.pc = "checked",
                     !.result = [expired |-> IsTokenExpired(client[r].oauth_creds, now)]]]
    /\ UNCHANGED <<now, file, issued, lifetime>>

InitExpiry ==
    /\ now \in 100 * TicksPerSec .. 101 * TicksPerSec
    /\ file \in {NoFile} \cup
                { OAuthCreds(AccessToken(0), RefreshTokenNo(0), "Bearer",
                             DefaultResourceUrl, exp) : exp \in 0..MaxExpiryDate }
    /\ issued = 0
    /\ lifetime = 3600
    /\ client = [r \in Requests |-> NewClient(IF r = 1 THEN "new" ELSE "off")]

NextExpiry == \E r \in Requests : Construct(r) \/ LoadOpen(r) \/ CheckExpired(r)

SpecExpiry == InitExpiry /\ [][NextExpiry]_vars

----------------------------------------------------------------------------
(* _save_oauth_creds on its own, with loads by other clients in between:   *)
(* open(OAUTH_CREDS_FILE, "w") truncates the file, and the JSON text       *)
(* reaches it when the with block closes it.  One client saves, as         *)
(* _refresh_token or _poll_for_token would; any client may be built at any *)
(* point.                                                                  *)

\* the credentials _refresh_token (lines 161-173) or _poll_for_token (lines
\* 119-128) hand to _save_oauth_creds at time t, old being the cached one
SavedCreds(old, n, exp, t) ==
    {PolledCreds(d, t) : d \in PollData(n, exp)}
        \cup (IF old = None THEN {}
              ELSE {RefreshedCreds(old, d, t) : d \in RefreshData(n, exp)})

\* _save_oauth_creds is called on a client that is built, lines 70-71
CallSave(r, creds) ==
    /\ client[r].pc = "built"
    /\ \A q \in Requests : client[q].pc \notin {"save", "saving", "saved"}
    /\ client' = [client EXCEPT ![r] = BeginSave(@, creds)]
    /\ issued' = issued + 1
    /\ UNCHANGED <<now, file, lifetime>>

InitSave ==
    /\ now \in InitialTimes
    /\ file \in {NoFile} \cup StoredCreds
    /\ issued = 0
    /\ lifetime = 3600
    /\ client = [r \in Requests |-> NewClient("new")]

NextSave ==
    \E r \in Requests :
        \/ Construct(r)
        \/ LoadOpen(r)
        \/ \E creds \in SavedCreds(client[r].oauth_creds, issued + 1, lifetime, now) :
               CallSave(r, creds)
        \/ SaveOpen(r)
        \/ SaveClose(r)

SpecSave == InitSave /\ [][NextSave]_vars

----------------------------------------------------------------------------
(* OpenAIAdapter.chat_completion_stream (openai_adapter.py): the generator *)
(* generate_stream drives the module's client, built when the module is    *)
(* imported, through make_request with stream = True and yields frames to  *)
(* the StreamingResponse.  make_request is a plain function: what it       *)
(* returns is a generator object, which line 120 awaits.  await raises     *)
(* TypeError for an object that is not awaitable, so lines 123-152 are not *)
(* reached and every exit of the try block is the handler of lines         *)
(* 154-161.                                                                *)

\* longest body of a streamed chat response, in chunks
MaxChunks == 2

\* chunks of response.iter_content, decoded
Chunks == {"Hello", " world"}

\* bodies of a streamed chat response: the chunks the byte source yields
\* before it ends
Sources == UNION {[1..n -> Chunks] : n \in 0..MaxChunks}

\* answers of the chat endpoint to a streaming request
StreamChatResponses ==
    {Response(st, "", NoData) : st \in {401, 500}}
        \cup {Response(200, "", [chunks |-> src]) : src \in Sources}

\* the frame of lines 157-160, for the exception with text e
ErrorFrame(e) == [kind |-> "error", message |-> e, type |-> "internal_error"]

\* "data: [DONE]\n\n"
DoneFrame == [kind |-> "done"]

\* await v raises TypeError: v is a generator object or a dict, the values
\* make_request returns
AwaitRaises(v) == v.kind \in {"stream", "json"}

\* generate_stream is started by the StreamingResponse and runs up to the
\* first blocking call of make_request, lines 107-120
StreamStart(r) ==
    /\ client[r].pc = "built"
    /\ client[r].gen = "none"
    /\ client' = [client EXCEPT ![r] =
           EnsureValidToken([@ EXCEPT !.stream = TRUE, !.gen = "running"], now)]
    /\ UNCHANGED <<now, file, issued, lifetime>>

\* make_request has returned or raised: line 120, then the handler up to its
\* first yield, lines 154-160
OnMakeRequestReturn(s) ==
    LET e == IF s.pc = "failed" THEN s.error
             ELSE IF AwaitRaises(s.result) THEN "TypeError" ELSE ""
    IN  [s EXCEPT !.gen = "error_sent",
                  !.error = e,
                  !.frames = Append(@, ErrorFrame(e))]

\* line 120 and lines 154-160
StreamAwait(r) ==
    /\ client[r].gen = "running"
    /\ client[r].pc \in {"done", "failed"}
    /\ client' = [client EXCEPT ![r] = OnMakeRequestReturn(@)]
    /\ UNCHANGED <<now, file, issued, lifetime>>

\* a mutant of StreamDone: the handler ends after the error event, without
\* the sentinel
StreamDone_NoSentinel(r) ==
    /\ client[r].gen = "error_sent"
    /\ client' = [client EXCEPT ![r] = [@ EXCEPT !.gen = "done_sent"]]
    /\ UNCHANGED <<now, file, issued, lifetime>>

\* the StreamingResponse asks for the next frame: line 161
StreamDone(r) ==
    /\ client[r].gen = "error_sent"
    /\ client' = [client EXCEPT ![r] =
           [@ EXCEPT !.gen = "done_sent", !.frames = Append(@, DoneFrame)]]
    /\ UNCHANGED <<now, file, issued, lifetime>>

\* the StreamingResponse asks for the next frame: the generator returns
StreamClose(r) ==
    /\ client[r].gen = "done_sent"
    /\ client' = [client EXCEPT ![r] = [@ EXCEPT !.gen = "closed"]]
    /\ UNCHANGED <<now, file, issued, lifetime>>

InitStream ==
    /\ now \in InitialTimes
    /\ file \in {NoFile} \cup StoredCreds
    /\ issued = 0
    /\ lifetime = 3600
    /\ client = [r \in Requests |-> NewClient(IF r = 1 THEN "new" ELSE "off")]

NextStream ==
    \E r \in Requests :
        \/ Construct(r)
        \/ LoadOpen(r)
        \/ SaveOpen(r)
        \/ SaveClose(r)
        \/ StreamStart(r)
        \/ \E resp \in SharedRefreshResponses(issued + 1, lifetime) : RefreshResp(r, resp)
        \/ \E resp \in SharedDeviceResponses : DeviceResp(r, resp)
        \/ PollWake(r)
        \/ \E resp \in SharedPollResponses(issued + 1, lifetime) : PollResp(r, resp)
        \/ \E resp \in StreamChatResponses : ChatResp(r, resp)
        \/ StreamAwait(r)
        \/ StreamDone(r)
        \/ StreamClose(r)

SpecStream == InitStream /\ [][NextStream]_vars

----------------------------------------------------------------------------
(* _poll_for_token over a device authorization long enough for the poll    *)
(* interval to reach its cap: one dispatch that has no usable credential   *)
(* and authorizes.  A token request is answered, fails in transport, or    *)
(* stays unanswered: requests.post of line 115 is called without a         *)
(* timeout, so nothing makes a poll that waits for an answer go on.        *)

\* longest device authorization granted here, in seconds
MaxPollLifetime == 17

\* answers of the device-authorization endpoint
LongDeviceResponses ==
    {Response(200, "", [expires_in |-> e]) : e \in {0, MaxPollLifetime}}

\* answers of the token endpoint to a device_code grant
LongPollResponses(n, exp) ==
    { Response(0, "", NoData),
      Response(400, "authorization_pending", NoData),
      Response(400, "slow_down", NoData),
      Response(400, "access_denied", NoData),
      Response(200, "", TokenCore(n, exp) @@ [refresh_token |-> RefreshTokenNo(n)]) }

InitPoll ==
    /\ now \in InitialTimes
    /\ file \in {NoFile, OAuthCreds(AccessToken(0), EmptyStr, "Bearer",
                                     DefaultResourceUrl, 70)}
    /\ issued = 0
    /\ lifetime = 3600
    /\ client = [r \in Requests |-> NewClient(IF r = 1 THEN "new" ELSE "off")]

NextPoll ==
    \E r \in Requests :
        \/ Start(r, FALSE)
        \/ LoadOpen(r)
        \/ SaveOpen(r)
        \/ SaveClose(r)
        \/ \E resp \in LongDeviceResponses : DeviceResp(r, resp)
        \/ PollWake(r)
        \/ \E resp \in LongPollResponses(issued + 1, lifetime) : PollResp(r, resp)
        \/ ChatResp(r, Response(200, "", NoData))

SpecPoll == InitPoll /\ [][NextPoll]_vars

----------------------------------------------------------------------------
(* Clients that outlive their construction, on the shared credential file: *)
(* a client is built first and used later, as the module-level qwen_client *)
(* of openai_adapter is (built at import, used by every chat_completion);  *)
(* other clients are built, load, refresh and save in between.             *)

\* make_request is called on a client built earlier and runs up to its first
\* blocking call: openai_adapter.py line 60 on the client of line 26
MakeRequest(r) ==
    /\ client[r].pc = "built"
    /\ client' = [client EXCEPT ![r] = EnsureValidToken(@, now)]
    /\ UNCHANGED <<now, file, issued, lifetime>>

InitCache ==
    /\ now \in InitialTimes
    /\ file \in {NoFile} \cup {c \in StoredCreds : c.refresh_token # EmptyStr}
    /\ issued = 0
    /\ lifetime = 3600
    /\ client = [r \in Requests |-> NewClient("new")]

NextCache ==
    \E r \in Requests :
        \/ Construct(r)
        \/ LoadOpen(r)
        \/ SaveOpen(r)
        \/ SaveClose(r)
        \/ MakeRequest(r)
        \/ \E resp \in SharedRefreshResponses(issued + 1, lifetime) : RefreshResp(r, resp)
        \/ \E resp \in SharedDeviceResponses : DeviceResp(r, resp)
        \/ PollWake(r)
        \/ \E resp \in SharedPollResponses(issued + 1, lifetime) : PollResp(r, resp)
        \/ \E resp \in SharedChatResponses : ChatResp(r, resp)

SpecCache == InitCache /\ [][NextCache]_vars

----------------------------------------------------------------------------
(* Reading a history.                                                      *)

\* number of entries with a given op made at a given stage
CountAt(log, op, stage) ==
    Cardinality({i \in DOMAIN log : log[i].op = op /\ log[i].stage = stage})

IsAnswer(e) == e.op \in {"refresh_resp", "device_resp", "poll_resp", "chat_resp"}

\* the answers received so far, in order, as <<op, status>>
Answers(log) ==
    LET a == SelectSeq(log, IsAnswer)
    IN  [i \in DOMAIN a |-> <<a[i].op, a[i].status>>]

\* the client was built on a credential that _is_token_expired accepts
StartedUnexpired(log) ==
    /\ log # <<>>
    /\ log[1].op = "load"
    /\ ~IsTokenExpired(log[1].creds, log[1].time)

\* requests sent so far: refresh grants, device authorizations, token polls, chat sends
Sent(log) ==
    <<Count(log, "refresh"), Count(log, "device"), Count(log, "poll"), Count(log, "chat")>>

----------------------------------------------------------------------------
(* Claims.                                                                 *)

\* the requests that ran a refresh or an authorization in _ensure_valid_token
Renewers ==
    { r \in Requests :
        CountAt(client[r].log, "refresh", "ensure")
            + CountAt(client[r].log, "device", "ensure") > 0 }

\* all requests were launched against one expired stored credential: each
\* client was built on the same credential, which _is_token_expired rejects,
\* and no renewal has failed (a failed one leaves the next request to renew)
LaunchedOnExpired ==
    /\ \A r \in Requests :
          /\ client[r].log # <<>>
          /\ client[r].log[1].creds # None
          /\ IsTokenExpired(client[r].log[1].creds, client[r].log[1].time)
          /\ ~(client[r].pc = "failed" /\ client[r].stage = "ensure")
    /\ \A r, q \in Requests : client[r].log[1].creds = client[q].log[1].creds

\* C1: when all requests are launched together against the same expired
\* shared credential, at most one of them runs the refresh-or-reauthorization
\* sequence; the others wait for its result, so all first sends carry the
\* same credential.
C1_SingleRenewal ==
    LaunchedOnExpired =>
        /\ Cardinality(Renewers) <= 1
        /\ \A r, q \in Requests :
              \A i \in DOMAIN client[r].log, j \in DOMAIN client[q].log :
                  /\ client[r].log[i].op = "chat" /\ client[r].log[i].stage = "first"
                  /\ client[q].log[j].op = "chat" /\ client[q].log[j].stage = "first"
                  => client[r].log[i].creds = client[q].log[j].creds

\* C2: after its first send a dispatch performs at most one reactive refresh
\* and resend and at most one reactive full authorization and resend, so it
\* sends at most three chat requests whatever the endpoints answer.
C2_BoundedRetry ==
    \A r \in Requests :
        LET log == client[r].log
        IN  /\ Count(log, "chat") <= 3
            /\ CountAt(log, "chat", "first") <= 1
            /\ CountAt(log, "refresh", "try") <= 1
            /\ CountAt(log, "chat", "try") <= 1
            /\ CountAt(log, "device", "except") <= 1
            /\ CountAt(log, "chat", "except") <= 1

\* a dispatch that used its whole retry budget: three chat requests sent
C2_Witness ==
    \E r \in Requests :
        /\ client[r].pc = "done"
        /\ Count(client[r].log, "chat") = 3
        /\ CountAt(client[r].log, "refresh", "try") = 1
        /\ CountAt(client[r].log, "device", "except") = 1

\* C3: from an unexpired credential, a 401 on the first send is followed by
\* one refresh; when it succeeds, by one resend; when that returns 200 the
\* dispatch returns the second response, having sent one refresh grant, two
\* chat requests, no device authorization and no token poll.
C3_RefreshThenResend ==
    \A r \in Requests :
        LET log == client[r].log
            a == Answers(log)
        IN  StartedUnexpired(log) =>
              /\ a = <<<<"chat_resp", 401>>>>
                    => client[r].pc = "refresh" /\ Sent(log) = <<1, 0, 0, 1>>
              /\ a = <<<<"chat_resp", 401>>, <<"refresh_resp", 200>>>>
                    => \/ client[r].pc \in {"save", "saving"} /\ Sent(log) = <<1, 0, 0, 1>>
                       \/ client[r].pc = "chat" /\ Sent(log) = <<1, 0, 0, 2>>
              /\ a = <<<<"chat_resp", 401>>, <<"refresh_resp", 200>>, <<"chat_resp", 200>>>>
                    => /\ client[r].pc = "done"
                       /\ client[r].result.response = 2
                       /\ ~client[r].stream => client[r].result.kind = "json"
                       /\ Sent(log) = <<1, 0, 0, 2>>

\* a non-streaming dispatch that went 401, refresh 200, 200
C3_Witness ==
    \E r \in Requests :
        /\ StartedUnexpired(client[r].log)
        /\ Answers(client[r].log) =
              <<<<"chat_resp", 401>>, <<"refresh_resp", 200>>, <<"chat_resp", 200>>>>
        /\ client[r].pc = "done"
        /\ ~client[r].stream

\* the reactive refresh of a dispatch failed: it was rejected or got no answer
ReactiveRefreshFailed(log) ==
    \E i \in DOMAIN log :
        log[i].op = "refresh_resp" /\ log[i].stage = "try" /\ log[i].status # 200

\* the full authorization of the except handler returned a credential: the
\* poll was answered 200 and the save that follows has returned
FallbackAuthorized(log) ==
    \E i \in DOMAIN log :
        /\ log[i].op = "poll_resp" /\ log[i].stage = "except" /\ log[i].status = 200
        /\ i < Len(log)

\* C4: when the first send is answered 400, 401 or 403 and the reactive
\* refresh fails, the dispatch starts the full authorization (device
\* authorization, then token polling) and, once it has a credential, resends
\* exactly once; it fails only if the authorization fails or the last
\* response is not a success.
C4_RefreshFailureFallsBack ==
    \A r \in Requests :
        LET log == client[r].log
            last == log[Len(log)]
        IN  ReactiveRefreshFailed(log) =>
              /\ CountAt(log, "device", "except") = 1
              /\ CountAt(log, "chat", "except") = IF FallbackAuthorized(log) THEN 1 ELSE 0
              /\ Count(log, "chat") = IF FallbackAuthorized(log) THEN 2 ELSE 1
              /\ client[r].pc = "failed" =>
                    \/ last.op = "device_resp" /\ ~FallbackAuthorized(log)
                    \/ last.op = "poll_resp" /\ ~FallbackAuthorized(log)
                    \/ /\ last.op = "chat_resp"
                       /\ last.stage = "except"
                       /\ last.status = 0 \/ last.status >= 400
              /\ client[r].pc = "done" =>
                    /\ last.op = "chat_resp" /\ last.stage = "except" /\ last.status = 200
                    /\ client[r].result.response = 2

\* a dispatch that succeeded through the fallback after a failed reactive refresh
C4_Witness ==
    \E r \in Requests :
        /\ ReactiveRefreshFailed(client[r].log)
        /\ FallbackAuthorized(client[r].log)
        /\ client[r].pc = "done"

\* C5: before the first send the credential is made valid: an expired
\* credential with a refresh token is refreshed, an absent one or one without
\* refresh token is re-authorized, a failed refresh is followed by the full
\* authorization; an unexpired one is sent as it is; and no chat request is
\* sent with an absent or expired credential.
C5_ValidBeforeSend ==
    \A r \in Requests :
        LET log == client[r].log
        IN  /\ \A i \in DOMAIN log :
                  log[i].op = "chat" =>
                      /\ log[i].creds # None
                      /\ ~IsTokenExpired(log[i].creds, log[i].time)
            /\ Len(log) >= 2 =>
                  LET c == log[1].creds
                      expired == IsTokenExpired(c, log[1].time)
                  IN  /\ ~expired => log[2].op = "chat"
                      /\ expired /\ c # None /\ c.refresh_token # EmptyStr
                            => log[2].op = "refresh"
                      /\ expired /\ (c = None \/ c.refresh_token = EmptyStr)
                            => log[2].op = "device"
            /\ \A i \in DOMAIN log :
                  /\ log[i].op = "refresh_resp"
                  /\ log[i].stage = "ensure"
                  /\ log[i].status # 200
                  => i < Len(log) /\ log[i + 1].op = "device"
            /\ \A i \in DOMAIN log :
                  log[i].op = "chat" /\ log[i].stage = "first" /\ ~IsTokenExpired(log[1].creds, log[1].time)
                      => i = 2

\* a dispatch that found an expired credential, refreshed it and then sent
C5_Witness ==
    \E r \in Requests :
        LET log == client[r].log
        IN  /\ Len(log) >= 4
            /\ log[1].creds # None
            /\ IsTokenExpired(log[1].creds, log[1].time)
            /\ log[2].op = "refresh"
            /\ log[3].op = "refresh_resp" /\ log[3].status = 200
            /\ log[4].op = "chat"

\* the value of _is_token_expired kept by CheckExpired, with its inputs
Checked(r) == client[r].pc = "checked"

\* C6: a credential whose expiry_date is more than 30 seconds after now is
\* not expired; one whose expiry_date is less than 30 seconds after now, or
\* at or before now, and an absent one, are expired.
C6_ExpiredBeforeExpiry ==
    \A r \in Requests :
        Checked(r) =>
            LET c == client[r].oauth_creds
                skew == 30 * TicksPerSec
            IN  /\ c # None /\ c.expiry_date * TicksPerSec > now + skew
                      => client[r].result.expired = FALSE
                /\ c = None \/ c.expiry_date * TicksPerSec < now + skew
                      => client[r].result.expired = TRUE

\* C7: isExpired is true exactly when the credential is absent or its
\* expiry_date is before now - 30 seconds.
C7_ExpiredIffPastSkew ==
    \A r \in Requests :
        Checked(r) =>
            LET c == client[r].oauth_creds
            IN  client[r].result.expired
                    = (c = None \/ c.expiry_date * TicksPerSec < now - 30 * TicksPerSec)

\* the check was made on a credential a quarter second past the skew
C7_Witness ==
    \E r \in Requests :
        /\ Checked(r)
        /\ client[r].oauth_creds # None
        /\ client[r].oauth_creds.expiry_date = 70
        /\ now = 100 * TicksPerSec + 1
        /\ client[r].result.expired

\* the credential a 200 answer to a device_code grant stands for
PollGrant(e) ==
    [access_token |-> e.data.access_token,
     refresh_token |-> e.data.refresh_token,
     token_type |-> e.data.token_type,
     resource_url |-> IF "resource_url" \in DOMAIN e.data
                      THEN e.data.resource_url ELSE DefaultResourceUrl,
     expiry_date |-> (e.time \div TicksPerSec) + e.data.expires_in]

\* the entry that started the poll to which entry i belongs
PollStart(log, i) ==
    CHOOSE j \in 1..i :
        /\ log[j].op = "device_resp"
        /\ \A m \in (j + 1)..i : log[m].op # "device_resp"

\* the answers of that poll before entry i
PollAnswersBefore(log, i) ==
    {m \in PollStart(log, i)..(i - 1) : log[m].op = "poll_resp"}

\* C8: when the token endpoint answers authorization_pending k times and
\* then 200, the poll has sent exactly k + 1 token requests, and the
\* credential built from the 200 answer is in the cache and in the file when
\* the poll returns.
C8_PollUntilApproved ==
    \A r \in Requests :
        LET log == client[r].log
        IN  \A i \in DOMAIN log :
                /\ log[i].op = "poll_resp"
                /\ log[i].status = 200
                /\ \A m \in PollAnswersBefore(log, i) : log[m].error = "authorization_pending"
                => /\ Cardinality({m \in PollStart(log, i)..i : log[m].op = "poll"})
                        = Cardinality(PollAnswersBefore(log, i)) + 1
                   /\ i = Len(log) =>
                        /\ client[r].pc \in {"save", "saving"}
                        /\ client[r].handle.creds = PollGrant(log[i])
                   /\ i < Len(log) => log[i + 1].creds = PollGrant(log[i])
                   /\ Len(log) = i + 1 =>
                        /\ client[r].oauth_creds = PollGrant(log[i])
                        /\ file = PollGrant(log[i])

\* a poll just returned after authorization_pending twice and then 200:
\* three token requests
C8_Witness ==
    \E r \in Requests :
        LET log == client[r].log
            i == Len(log) - 1
        IN  /\ i >= 7
            /\ log[i].op = "poll_resp" /\ log[i].status = 200
            /\ Cardinality(PollAnswersBefore(log, i)) = 2
            /\ \A m \in PollAnswersBefore(log, i) : log[m].error = "authorization_pending"
            /\ Cardinality({m \in PollStart(log, i)..i : log[m].op = "poll"}) = 3

\* the refresh grant of request r was just answered with entry e: e is the
\* last answer and the next blocking call has been made
JustAnswered(r, e) ==
    LET log == client[r].log
    IN  /\ Len(log) >= 2
        /\ log[Len(log) - 1] = e
        /\ e.op = "refresh_resp"

\* C9: when a refresh grant is answered with a status other than 200, the
\* credential file is deleted and the cached credential cleared before the
\* failure is handled: a load returns absent and isExpired is true.
C9_RejectedRefreshDropsCreds ==
    \A r \in Requests :
        LET log == client[r].log
            e == log[Len(log) - 1]
        IN  Len(log) >= 2 /\ JustAnswered(r, e) /\ e.status \notin {0, 200} =>
              /\ file = NoFile
              /\ client[r].oauth_creds = None
              /\ log[Len(log)].creds = None
              /\ ~LoadRaises(file) /\ LoadOAuthCreds(file) = None
              /\ IsTokenExpired(LoadOAuthCreds(file), now)

\* a refresh grant was just rejected while a credential was stored
C9_Witness ==
    \E r \in Requests :
        LET log == client[r].log
        IN  /\ Len(log) >= 2
            /\ JustAnswered(r, log[Len(log) - 1])
            /\ log[Len(log) - 1].status = 400
            /\ log[Len(log) - 1].creds # None
            /\ file = NoFile

\* C10: after a 200 answer to a refresh grant the credential has the
\* answer's access_token and token_type, expiry_date = whole seconds of the
\* time of the answer + expires_in, the answer's refresh_token and
\* resource_url where it supplies them and the previous ones where it omits
\* them; it is the cached credential and the content of the file.
C10_RefreshedCredential ==
    \A r \in Requests :
        LET log == client[r].log
            e == log[Len(log) - 1]
            old == e.creds
            new == client[r].oauth_creds
        IN  Len(log) >= 2 /\ JustAnswered(r, e) /\ e.status = 200 =>
              /\ new.access_token = e.data.access_token
              /\ new.token_type = e.data.token_type
              /\ new.expiry_date = (e.time \div TicksPerSec) + e.data.expires_in
              /\ new.refresh_token = IF "refresh_token" \in DOMAIN e.data
                                     THEN e.data.refresh_token ELSE old.refresh_token
              /\ new.resource_url = IF "resource_url" \in DOMAIN e.data
                                    THEN e.data.resource_url ELSE old.resource_url
              /\ file = new
              /\ LoadOAuthCreds(file) = new
              /\ log[Len(log)].creds = new

\* a refresh just succeeded with an answer that rotates the refresh token
\* and omits resource_url
C10_Witness ==
    \E r \in Requests :
        LET log == client[r].log
            e == log[Len(log) - 1]
        IN  /\ Len(log) >= 2
            /\ JustAnswered(r, e)
            /\ e.status = 200
            /\ "refresh_token" \in DOMAIN e.data
            /\ "resource_url" \notin DOMAIN e.data
            /\ e.data.refresh_token # e.creds.refresh_token
            /\ client[r].oauth_creds.resource_url = e.creds.resource_url

\* C11: a refresh is never sent to the token endpoint for a credential that
\* is absent or has no refresh_token, on any call path (the check of
\* _ensure_valid_token or the reactive refresh after a 400, 401 or 403), so
\* such a credential is never refreshed, replaced or deleted by a refresh.
C11_NoRefreshWithoutToken ==
    \A r \in Requests :
        \A i \in DOMAIN client[r].log :
            client[r].log[i].op = "refresh" =>
                /\ client[r].log[i].creds # None
                /\ client[r].log[i].creds.refresh_token # EmptyStr

\* the load of request r ends in this step: _load_oauth_creds returns or
\* raises
Built(r) ==
    /\ client[r].pc \in {"new", "open"}
    /\ client'[r].pc \notin {"new", "open"}

\* the constructor of request r raised out of _load_oauth_creds
LoadFailed(c) == c.pc = "failed" /\ c.error = "LoadError" /\ Len(c.log) = 1

\* C12 as stated: load returns absent and never raises, both when there is
\* no credential file and when the file cannot be parsed into a credential;
\* the client then has no credential and starts the authorization.
C12_LoadNeverRaises ==
    [][\A r \in Requests :
          Built(r) /\ (file = NoFile \/ LoadRaises(file)) =>
              /\ ~LoadFailed(client'[r])
              /\ client'[r].log[1].creds = None
              /\ Len(client'[r].log) >= 2 /\ client'[r].log[2].op = "device"]_vars

\* C12 amended: load returns absent, without raising, when its existence
\* check finds no credential file, and the client starts the authorization;
\* when the check finds a file, load opens and parses it, and a file that
\* cannot be opened or parsed by then makes load raise out of the
\* constructor: no request is sent, the file is left as it is and the
\* dispatch fails; any other file is loaded as the cached credential.
C12_LoadRaisesOnCorrupt ==
    [][\A r \in Requests :
          /\ client[r].pc = "new" /\ client'[r].pc # "new" =>
                (client'[r].pc = "open") = (file # NoFile)
          /\ Built(r) =>
              /\ client[r].pc = "new" =>
                    /\ file = NoFile
                    /\ ~LoadFailed(client'[r])
                    /\ client'[r].log[1].creds = None
                    /\ Len(client'[r].log) >= 2 /\ client'[r].log[2].op = "device"
              /\ client[r].pc = "open" /\ (OpenRaises(file) \/ LoadRaises(file)) =>
                    /\ LoadFailed(client'[r])
                    /\ client'[r].oauth_creds = None
                    /\ Sent(client'[r].log) = <<0, 0, 0, 0>>
                    /\ file' = file
              /\ client[r].pc = "open" /\ ~OpenRaises(file) /\ ~LoadRaises(file) =>
                    /\ ~LoadFailed(client'[r])
                    /\ client'[r].log[1].creds = file]_vars

\* a client was built on a file that cannot be parsed, and failed
C12_Witness ==
    \E r \in Requests :
        /\ LoadFailed(client[r])
        /\ LoadRaises(file)
        /\ file # NoFile

\* C13: a load that runs while another client saves sees the complete
\* previous credential (or no file) or the complete new credential, never an
\* empty or partly written file: it does not fail, and what it returns is
\* absent or has every field of a credential.
C13_LoadSeesWholeFile ==
    \A r \in Requests :
        client[r].log # <<>> =>
            /\ ~LoadFailed(client[r])
            /\ \/ client[r].log[1].creds = None
               \/ DOMAIN client[r].log[1].creds = CredFields

\* the frame of one chunk, the terminal frame, and the kinds of a frame list
ChunkFrame(c) == [kind |-> "chunk", delta |-> c, finish_reason |-> "none"]
StopFrame == [kind |-> "chunk", delta |-> "", finish_reason |-> "stop"]
Kinds(frames) == [i \in DOMAIN frames |-> frames[i].kind]

\* the body of the response make_request returned as a stream
ReturnedSource(c) ==
    LET a == SelectSeq(c.log, LAMBDA e : e.op = "chat_resp")
    IN  a[Len(a)].data.chunks

\* make_request returned a byte source to generate_stream, which has ended
StreamedAndClosed(c) ==
    c.gen = "closed" /\ c.pc = "done" /\ c.result.kind = "stream"

\* C14: for a byte source that yields chunks c1..cn and ends normally, the
\* frames are one event per chunk in source order with delta = the chunk and
\* finish_reason = none, then one terminal event with empty delta and
\* finish_reason = stop, then the [DONE] sentinel: n + 2 frames.
C14_ChunksThenStopThenDone ==
    \A r \in Requests :
        StreamedAndClosed(client[r]) =>
            LET src == ReturnedSource(client[r])
            IN  client[r].frames =
                    [i \in DOMAIN src |-> ChunkFrame(src[i])] \o <<StopFrame, DoneFrame>>

\* C15: when the dispatch or the byte source fails after j >= 0 chunks were
\* emitted, nothing is raised to the transport layer: the frames are the j
\* chunk events, then one error event, then the [DONE] sentinel, with no
\* terminal stop event; and every output that has ended, ends with the only
\* [DONE] sentinel it contains.
C15_ErrorThenDone ==
    \A r \in Requests :
        LET c == client[r]
            n == Len(c.frames)
        IN  /\ c.gen \in {"none", "running", "error_sent", "done_sent", "closed"}
            /\ c.gen = "closed" =>
                  /\ n >= 1
                  /\ c.frames[n] = DoneFrame
                  /\ \A i \in 1..(n - 1) : c.frames[i] # DoneFrame
            /\ c.gen = "closed" /\ c.error # "" =>
                  /\ n >= 2
                  /\ c.frames[n - 1] = ErrorFrame(c.error)
                  /\ \A i \in 1..(n - 2) :
                        /\ c.frames[i].kind = "chunk"
                        /\ c.frames[i].finish_reason = "none"
            /\ c.gen \in {"running", "none"} => c.frames = <<>>
            /\ c.gen = "error_sent" => Kinds(c.frames) = <<"error">>

\* a streaming dispatch failed at the chat endpoint before any chunk, and
\* the output ended with the error event and the sentinel
C15_Witness ==
    \E r \in Requests :
        /\ client[r].gen = "closed"
        /\ client[r].pc = "failed"
        /\ client[r].error = "HTTPError"
        /\ Kinds(client[r].frames) = <<"error", "done">>

\* the index of the first chat response in a history, 0 when there is none
FirstChatResp(log) ==
    IF \E i \in DOMAIN log : log[i].op = "chat_resp"
    THEN CHOOSE i \in DOMAIN log :
            log[i].op = "chat_resp" /\ \A j \in 1..(i - 1) : log[j].op # "chat_resp"
    ELSE 0

\* C16: a dispatch returns a result only when the last chat response it got
\* has a success status (one that raise_for_status accepts: below 400), and
\* that response is the one returned; when the
\* last response has an error status and nothing is left to try, it fails
\* with the HTTP error; a first response with an error status other than
\* 400, 401, 403 fails so at once: no refresh, no authorization, no resend,
\* and the cached and the stored credential are as they were at the send.
C16_LastStatusDecides ==
    \A r \in Requests :
        LET log == client[r].log
            last == log[Len(log)]
            i == FirstChatResp(log)
        IN  /\ client[r].pc = "done" =>
                  /\ last.op = "chat_resp"
                  /\ last.status # 0 /\ last.status < 400
                  /\ client[r].result.response = Count(log, "chat_resp")
            /\ log # <<>> /\ last.op = "chat_resp" /\ last.status >= 400 =>
                  client[r].pc = "failed" /\ client[r].error = "HTTPError"
            /\ i > 0 /\ log[i].status >= 400 /\ log[i].status \notin AuthFailureStatuses =>
                  /\ i = Len(log)
                  /\ client[r].pc = "failed" /\ client[r].error = "HTTPError"
                  /\ Count(log, "chat") = 1
                  /\ CountAt(log, "refresh", "try") = 0
                  /\ CountAt(log, "device", "except") = 0
                  /\ log[i - 1].op = "chat"
                  /\ client[r].oauth_creds = log[i - 1].creds
                  /\ file = DumpOAuthCreds(log[i - 1].creds)

\* a dispatch whose first send was answered 500
C16_Witness ==
    \E r \in Requests :
        LET log == client[r].log
        IN  /\ client[r].pc = "failed"
            /\ client[r].error = "HTTPError"
            /\ Count(log, "chat") = 1
            /\ log[Len(log)].op = "chat_resp"
            /\ log[Len(log)].status = 500

\* the poll interval after k slow_down answers: 2 s, 3 s, 4.5 s, 6.75 s,
\* then 10 s, in ticks
SlowedInterval(k) ==
    IF k = 0 THEN 2 * TicksPerSec
    ELSE IF k = 1 THEN 3 * TicksPerSec
    ELSE IF k = 2 THEN (9 * TicksPerSec) \div 2
    ELSE IF k = 3 THEN (27 * TicksPerSec) \div 4
    ELSE 10 * TicksPerSec

\* the slow_down answers of the poll that entry i belongs to, before entry i
SlowDownsBefore(log, i) ==
    Cardinality({m \in PollAnswersBefore(log, i) : log[m].error = "slow_down"})

\* the slow_down answers of the poll in progress, or of the last one
SlowDownsSoFar(log) ==
    Cardinality({m \in DOMAIN log :
                    /\ log[m].op = "poll_resp"
                    /\ log[m].error = "slow_down"
                    /\ \A j \in m..Len(log) :
                          ~(log[j].op = "device_resp" /\ log[j].status = 200)})

\* a device authorization was granted in this history
PollStarted(log) ==
    \E i \in DOMAIN log : log[i].op = "device_resp" /\ log[i].status = 200

\* C17: every token request of a poll comes a full poll interval after the
\* start of the poll or the previous answer; the interval is 2 s at first,
\* is kept by authorization_pending and becomes min(interval * 1.5, 10) on
\* each slow_down, so it never decreases and stays within 2 s and 10 s; after
\* one slow_down the next token request comes at least 3 s later.
C17_PollInterval ==
    \A r \in Requests :
        LET log == client[r].log
        IN  /\ \A i \in DOMAIN log :
                  log[i].op = "poll" =>
                      /\ i > 1
                      /\ log[i - 1].op \in {"device_resp", "poll_resp"}
                      /\ log[i].time - log[i - 1].time
                            >= SlowedInterval(SlowDownsBefore(log, i))
                      /\ log[i - 1].op = "poll_resp" /\ log[i - 1].error = "slow_down"
                            => log[i].time - log[i - 1].time >= 3 * TicksPerSec
                      /\ log[i - 1].op = "poll_resp" =>
                            log[i].time - log[i - 1].time
                                >= log[i - 2].time - log[i - 3].time
            /\ PollStarted(log) =>
                  /\ client[r].poll_interval
                        = SlowedInterval(SlowDownsSoFar(log))
                  /\ client[r].poll_interval >= 2 * TicksPerSec
                  /\ client[r].poll_interval <= 10 * TicksPerSec

\* a token request was sent 10 s after the previous answer: the interval
\* has reached its cap after four slow_down answers
C17_Witness ==
    \E r \in Requests :
        LET log == client[r].log
        IN  \E i \in DOMAIN log :
                /\ log[i].op = "poll"
                /\ SlowDownsBefore(log, i) = 4
                /\ log[i].time - log[i - 1].time = 10 * TicksPerSec

\* a non-200 answer to a token request of the poll whose error code is
\* neither authorization_pending nor slow_down
Rejection(e) ==
    /\ e.op = "poll_resp"
    /\ e.status \notin {0, 200}
    /\ e.error \notin {"authorization_pending", "slow_down"}

\* C18: when a token request of the poll is answered with a non-200 status
\* and an error code other than authorization_pending and slow_down, the
\* dispatch fails in that step with the OAuth error: the answer is the last
\* entry of its history (no further request of any kind), and the
\* credential file and the cached credential are what they were.
C18_RejectionIsFatal ==
    [][\A r \in Requests :
          LET log == client'[r].log
          IN  \A i \in DOMAIN log :
                  Rejection(log[i]) =>
                      /\ i = Len(log)
                      /\ client'[r].pc = "failed"
                      /\ client'[r].error = "OAuth error"
                      /\ client[r].pc \in {"poll", "failed"}
                      /\ client'[r].oauth_creds = client[r].oauth_creds
                      /\ client[r].pc = "poll" => file' = file]_vars

\* the authorization of the except handler was rejected and the dispatch
\* failed with the OAuth error
C18_Witness ==
    \E r \in Requests :
        LET log == client[r].log
        IN  /\ client[r].pc = "failed"
            /\ client[r].error = "OAuth error"
            /\ Rejection(log[Len(log)])
            /\ log[Len(log)].stage = "except"
            /\ log[Len(log)].error = "access_denied"

\* request r is inside the loop of _poll_for_token
Polling(r) == client[r].pc \in {"sleep", "poll"}

\* how the poll of a history ended
PollOutcome(c) ==
    IF \E i \in DOMAIN c.log : c.log[i].op = "poll_resp" /\ c.log[i].status = 200
    THEN "success"
    ELSE IF c.pc = "failed" THEN c.error
    ELSE "none"

\* C19: every poll ends in exactly one of three outcomes: a poll that has
\* ended, ended in success (a 200 answer), in the OAuth error (a rejection)
\* or in the timeout.
C19_ThreeOutcomes ==
    \A r \in Requests :
        PollStarted(client[r].log) /\ ~Polling(r) =>
            PollOutcome(client[r]) \in
                {"success", "OAuth error", "OAuth device flow timed out."}

\* request r sends a chat request in this step
SendsChat(r) == Count(client'[r].log, "chat") > Count(client[r].log, "chat")

\* C20: the cached credential a dispatch sends with is never stale: whenever
\* a chat request is sent, the credential file holds a credential and the
\* request carries that credential's access token, not one that another
\* client's refresh or authorization has replaced or whose file a failed
\* refresh has deleted.
C20_CacheNeverStale ==
    [][\A r \in Requests :
          SendsChat(r) =>
              /\ DOMAIN file' = CredFields
              /\ client'[r].bearer = file'.access_token]_vars

\* C21: every chat request a dispatch sends, the resends after a reactive
\* refresh or authorization included, is built from the credential cached
\* when it is sent: its bearer token is that credential's access_token and
\* its URL is the chat URL of that credential's resource_url.
C21_SentWithCurrentCredential ==
    \A r \in Requests :
        \A i \in DOMAIN client[r].log :
            client[r].log[i].op = "chat" =>
                /\ client[r].log[i].creds # None
                /\ client[r].log[i].bearer = client[r].log[i].creds.access_token
                /\ client[r].log[i].api_url
                      = ApiUrl(client[r].log[i].creds.resource_url)

====
